---- MODULE Spec2Model ----
(***************************************************************************)
(* The OTP lifecycle of the vendor backend: OTPService.sendOTP, verifyOTP, *)
(* resendOTP and cleanExpiredOTPs (src/services/otpService.js) acting on   *)
(* the otps table (src/scripts/setupDatabase.js).                          *)
(*                                                                         *)
(* Every await on connection.execute is a point where other requests run,  *)
(* so each handler is a sequence of atomic steps, one per SQL statement,   *)
(* together with the synchronous JavaScript that follows it up to the next *)
(* await.  Time is counted in whole minutes.                               *)
(*                                                                         *)
(* In front of the send-otp and resend-otp routes stands the in-memory     *)
(* RateLimiter middleware (src/unnamed/part_003), which keeps a counter    *)
(* per key.                                                                *)
(***************************************************************************)
EXTENDS Integers, Sequences, FiniteSets, TLC

VARIABLES
    otps,     \* the otps table: id -> row
    nextId,   \* the AUTO_INCREMENT counter of otps.id
    now,      \* the clock (Date.now() and the server's NOW()), in minutes
    calls,    \* per request in flight: where it stands and its locals
    ret,      \* what the latest step returned or threw to its caller, if anything
    requests, \* RateLimiter.requests of the OTP limiter: key -> {count, resetTime}
    reply,    \* what the limiter did with the latest request, if anything
    users,    \* the users table: phone (UNIQUE) -> row
    resp      \* the latest answer of an auth handler, if any

\* The state of the middleware.
limiter == <<requests, reply>>

\* The state of the auth handlers.
accounts == <<users, resp>>

vars == <<otps, nextId, now, calls, ret, limiter, accounts>>

(* ------------------------------ bounds -------------------------------- *)

\* At most MaxRows rows are ever inserted (ids 1..MaxRows).
MaxRows == 2

\* The same, in the specifications SpecRace and SpecRate.
MaxRaceRows == 1
MaxIssued == 3

\* The same, in the specification SpecIssueRace.
MaxRacedIssues == 4

\* The same, in the specification SpecSweep.
MaxSwept == 4

(* ------------------------- program constants -------------------------- *)

\* sendOTP: "max 3 OTPs per phone per 5 minutes"
RateWindow == 5
RateMax == 3
\* sendOTP: expiresAt = now + 10 minutes
OtpTTL == 10
\* verifyOTP: "max 3 attempts"
MaxAttempts == 3
\* resendOTP: "within 1 minute"
ResendWindow == 1
\* otpLimiterInstance = new RateLimiter(5 * 60 * 1000, 10, ..)
OtpLimitWindow == 5
OtpLimitMax == 10

(* ------------------------------ inputs -------------------------------- *)

\* Requests that can be in flight at once.
Calls == {"c1", "c2"}

Digits == {"0", "1", "2", "3", "4", "5", "6", "7", "8", "9"}

\* Phone numbers as the callers pass them (sequences of characters): two
\* spellings of one subscriber, and a second subscriber.
PhoneA == <<"9", "1">>
PhoneASpaced == <<"9", "-", "1">>
PhoneB == <<"9", "2">>

Purposes == {"registration", "login"}

\* Values generateOTP can return (two of the 900000).
GeneratedCodes == {"100000", "999999"}

\* The limited routes, the addresses requests come from, and a request body
\* without a phone.
LimitedRoutes == {"send-otp", "resend-otp"}
Ip1 == <<"1">>
NoPhone == <<>>

\* phone.replace(/\D/g, '')
CleanPhone(phone) == SelectSeq(phone, LAMBDA ch : ch \in Digits)

(* ------------------------------- state -------------------------------- *)

IdleCall == [pc |-> "idle", op |-> "none", phone |-> <<>>, purpose |-> "none",
             rec |-> 0, res |-> "none", code |-> "none", expiresAt |-> 0]

NoRet == [call |-> "none", op |-> "none", phone |-> <<>>, purpose |-> "none",
          res |-> "none", rec |-> 0, code |-> "none"]

NoEntry == [count |-> 0, resetTime |-> 0, passed |-> 0]

NoReply == [key |-> <<>>, route |-> "none", status |-> "none"]

NoResp == [route |-> "none", status |-> 0, user |-> 0]

Init ==
    /\ otps = <<>>
    /\ nextId = 1
    /\ now = 0
    /\ calls = [c \in Calls |-> IdleCall]
    /\ ret = NoRet
    /\ requests = [key \in {} |-> NoEntry]
    /\ reply = NoReply
    /\ users = [phone \in {} |-> 0]
    /\ resp = NoResp

\* The handler of c, called as op(phone, .., purpose), returns (res = "ok")
\* or throws res; rec is the row it inserted or fetched, if any, and code
\* the otpCode it was called with, if it takes one.
Return(c, op, phone, purpose, rec, res, code) ==
    /\ calls' = [calls EXCEPT ![c] = IdleCall]
    /\ ret' = [call |-> c, op |-> op, phone |-> phone, purpose |-> purpose,
               res |-> res, rec |-> rec, code |-> code]

(* --------------------------- the otps table --------------------------- *)

Ids == DOMAIN otps

\* Variant of NewRow whose row expires when it is created.
NewRowStale(phone, code, purpose, expiresAt) ==
    [phone |-> phone, code |-> code, purpose |-> purpose, expires |-> now,
     used |-> FALSE, attempts |-> 0, created |-> now, verified |-> 0,
     wrong |-> 0, resent |-> FALSE]

\* INSERT INTO otps (phone, otp_code, purpose, expires_at): is_used and
\* attempts take their column defaults, created_at is CURRENT_TIMESTAMP.
\* verified, wrong and resent are history: how many verifyOTP calls returned
\* success on the row, how many threw 'Invalid OTP code' on it, and whether a
\* resendOTP invalidated it.
NewRow(phone, code, purpose, expiresAt) ==
    [phone |-> phone, code |-> code, purpose |-> purpose, expires |-> expiresAt,
     used |-> FALSE, attempts |-> 0, created |-> now,
     verified |-> 0, wrong |-> 0, resent |-> FALSE]

\* Variant of Insert that retires the unused rows of the (phone, purpose) of
\* the new row.
InsertSuperseding(row) ==
    [id \in Ids \cup {nextId} |->
        IF id = nextId THEN row
        ELSE IF otps[id].phone = row.phone /\ otps[id].purpose = row.purpose
        THEN [otps[id] EXCEPT !.used = TRUE]
        ELSE otps[id]]

Insert(row) ==
    [id \in Ids \cup {nextId} |-> IF id = nextId THEN row ELSE otps[id]]

\* WHERE phone = ? AND created_at > ?
RecentRows(phone, since) ==
    {id \in Ids : otps[id].phone = phone /\ otps[id].created > since}

\* Variant of RateLimited that lets a fourth row in: it refuses only above
\* RateMax rows.
RateLimitedOver(phone) ==
    Cardinality(RecentRows(phone, now - RateWindow)) > RateMax

\* sendOTP: recentOtps[0].count >= 3 over the last 5 minutes
RateLimited(phone) ==
    Cardinality(RecentRows(phone, now - RateWindow)) >= RateMax

\* Variant of TooSoon that counts rows of the asked purpose only.
TooSoonSamePurpose(phone, purpose) ==
    \E id \in RecentRows(phone, now - ResendWindow) : otps[id].purpose = purpose

\* resendOTP: recentOtp.length > 0 over the last minute
TooSoon(phone, purpose) == RecentRows(phone, now - ResendWindow) # {}

\* Variant of Unused that ignores the purpose.
UnusedAnyPurpose(phone, purpose) ==
    {id \in Ids : otps[id].phone = phone /\ ~otps[id].used}

\* WHERE phone = ? AND purpose = ? AND is_used = FALSE
Unused(phone, purpose) ==
    {id \in Ids : /\ otps[id].phone = phone
                  /\ otps[id].purpose = purpose
                  /\ ~otps[id].used}

\* Variant of Latest that takes the oldest unused row (ORDER BY created_at
\* ASC).
Oldest(phone, purpose) ==
    {id \in Unused(phone, purpose) :
        \A j \in Unused(phone, purpose) : otps[j].created >= otps[id].created}

\* ORDER BY created_at DESC LIMIT 1: one of the rows with the greatest
\* created_at; among rows inserted at the same timestamp the server is free
\* to return any.
Latest(phone, purpose) ==
    {id \in Unused(phone, purpose) :
        \A j \in Unused(phone, purpose) : otps[j].created <= otps[id].created}

\* Variant of Judge that allows one attempt more.
JudgeLenient(row, code) ==
    IF now > row.expires THEN "Expired"
    ELSE IF row.attempts > MaxAttempts THEN "AttemptsExhausted"
    ELSE IF row.code # code THEN "CodeMismatch"
    ELSE "ok"

\* Variant of Judge that looks at the attempts before the expiry.
JudgeAttemptsFirst(row, code) ==
    IF row.attempts >= MaxAttempts THEN "AttemptsExhausted"
    ELSE IF now > row.expires THEN "Expired"
    ELSE IF row.code # code THEN "CodeMismatch"
    ELSE "ok"

\* verifyOTP's checks on the fetched row, in the order of the code.
Judge(row, code) ==
    IF now > row.expires THEN "Expired"
    ELSE IF row.attempts >= MaxAttempts THEN "AttemptsExhausted"
    ELSE IF row.code # code THEN "CodeMismatch"
    ELSE "ok"

\* Variant of MarkUsed that also clears the attempts of the row.
MarkUsedReset(id) ==
    IF id \in Ids THEN [otps EXCEPT ![id].used = TRUE, ![id].attempts = 0]
    ELSE otps

\* UPDATE otps SET is_used = TRUE WHERE id = ?
MarkUsed(id) ==
    IF id \in Ids THEN [otps EXCEPT ![id].used = TRUE] ELSE otps

\* Variant of IncrementAttempts that reopens the row it counts on.
IncrementAttemptsReopen(id) ==
    IF id \in Ids THEN [otps EXCEPT ![id].attempts = @ + 1, ![id].used = FALSE]
    ELSE otps

\* UPDATE otps SET attempts = attempts + 1 WHERE id = ?
IncrementAttempts(id) ==
    IF id \in Ids THEN [otps EXCEPT ![id].attempts = @ + 1] ELSE otps

\* Variant of ApplyVerdict that closes the row on a wrong code as well.
ApplyVerdictClosing(id, res) ==
    IF res = "CodeMismatch"
    THEN IF id \in Ids
         THEN [otps EXCEPT ![id].attempts = @ + 1, ![id].used = TRUE]
         ELSE otps
    ELSE MarkUsed(id)

\* verifyOTP's write for the branch it took.
ApplyVerdict(id, res) ==
    IF res = "CodeMismatch" THEN IncrementAttempts(id) ELSE MarkUsed(id)

\* Variant of ToInvalidate that stops at the newest unused row of the phone.
ToInvalidateLatest(phone, purpose) ==
    {id \in Ids : /\ otps[id].phone = phone
                  /\ ~otps[id].used
                  /\ \A j \in Ids : otps[j].phone = phone /\ ~otps[j].used
                                      => j <= id}

\* Variant of ToInvalidate that spares the rows of the other purposes.
ToInvalidateSamePurpose(phone, purpose) ==
    {id \in Ids : /\ otps[id].phone = phone
                  /\ otps[id].purpose = purpose
                  /\ ~otps[id].used}

\* resendOTP: the rows that "UPDATE otps SET is_used = TRUE WHERE phone = ?
\* AND is_used = FALSE" touches.
ToInvalidate(phone, purpose) ==
    {id \in Ids : otps[id].phone = phone /\ ~otps[id].used}

\* Variant of Swept that also takes the rows expiring at this very instant.
SweptThrough == {id \in Ids : otps[id].expires <= now \/ otps[id].used}

\* cleanExpiredOTPs: DELETE FROM otps WHERE expires_at < NOW() OR is_used = TRUE
Swept == {id \in Ids : otps[id].expires < now \/ otps[id].used}

(* ------------------------------ sendOTP ------------------------------- *)

\* Lines 59-72: the rate-limit query and, when it passes, the generated code
\* and expiresAt.
\* code is the value generateOTP draws.
CheckAndGenerate(c, op, phone, purpose, code) ==
    IF RateLimited(phone)
    THEN /\ Return(c, op, phone, purpose, 0, "RateLimitExceeded", "none")
    ELSE /\ calls' = [calls EXCEPT ![c] =
                        [pc |-> "sInsert", op |-> op, phone |-> phone,
                         purpose |-> purpose, rec |-> 0, res |-> "none",
                         code |-> code, expiresAt |-> now + OtpTTL]]
         /\ ret' = NoRet

SendCheck(c, phone, purpose, code) ==
    /\ calls[c].pc = "idle"
    /\ CheckAndGenerate(c, "send", CleanPhone(phone), purpose, code)
    /\ UNCHANGED <<otps, nextId, now, limiter, accounts>>

\* Variant of SendInsert that counts again before it inserts.
SendInsertChecked(c) ==
    /\ calls[c].pc = "sInsert"
    /\ IF RateLimited(calls[c].phone)
       THEN /\ Return(c, calls[c].op, calls[c].phone, calls[c].purpose, 0,
                      "RateLimitExceeded", "none")
            /\ UNCHANGED <<otps, nextId>>
       ELSE /\ otps' = Insert(NewRow(calls[c].phone, calls[c].code,
                                     calls[c].purpose, calls[c].expiresAt))
            /\ nextId' = nextId + 1
            /\ calls' = [calls EXCEPT ![c].pc = "sDeliver", ![c].rec = nextId,
                                       ![c].code = "none", ![c].expiresAt = 0]
            /\ ret' = NoRet
    /\ UNCHANGED <<now, limiter, accounts>>

\* Lines 74-78: the INSERT.
SendInsert(c) ==
    /\ calls[c].pc = "sInsert"
    /\ otps' = Insert(NewRow(calls[c].phone, calls[c].code, calls[c].purpose,
                             calls[c].expiresAt))
    /\ nextId' = nextId + 1
    /\ calls' = [calls EXCEPT ![c].pc = "sDeliver", ![c].rec = nextId,
                               ![c].code = "none", ![c].expiresAt = 0]
    /\ ret' = NoRet
    /\ UNCHANGED <<now, limiter, accounts>>

\* Variant of SendDeliver that takes the row back when the gateway refuses.
SendDeliverRollback(c) ==
    /\ calls[c].pc = "sDeliver"
    /\ \E res \in {"ok", "DeliveryFailed"} :
          /\ Return(c, calls[c].op, calls[c].phone, calls[c].purpose,
                    calls[c].rec, res, "none")
          /\ otps' = IF res = "ok" THEN otps
                     ELSE [id \in Ids \ {calls[c].rec} |-> otps[id]]
    /\ UNCHANGED <<nextId, now, limiter, accounts>>

\* Lines 80-132: the SMS (or, outside production, the log line), which the
\* gateway accepts or refuses.
SendDeliver(c) ==
    /\ calls[c].pc = "sDeliver"
    /\ \E res \in {"ok", "DeliveryFailed"} :
          Return(c, calls[c].op, calls[c].phone, calls[c].purpose,
                 calls[c].rec, res, "none")
    /\ UNCHANGED <<otps, nextId, now, limiter, accounts>>

(* ----------------------------- verifyOTP ------------------------------ *)

\* Lines 145-186: the SELECT and the branch taken on the fetched row.
VerifySelect(c, phone, code, purpose) ==
    /\ calls[c].pc = "idle"
    /\ IF Unused(CleanPhone(phone), purpose) = {}
       THEN Return(c, "verify", CleanPhone(phone), purpose, 0, "NoActiveCode",
                   code)
       ELSE /\ \E id \in Latest(CleanPhone(phone), purpose) :
                 calls' = [calls EXCEPT ![c] =
                             [IdleCall EXCEPT !.pc = "vUpdate", !.op = "verify",
                                              !.phone = CleanPhone(phone),
                                              !.purpose = purpose,
                                              !.rec = id,
                                              !.code = code,
                                              !.res = Judge(otps[id], code)]]
            /\ ret' = NoRet
    /\ UNCHANGED <<otps, nextId, now, limiter, accounts>>

\* The history of the write: what the call returns is counted on the row.
Noted(id, res, table) ==
    IF id \notin Ids THEN table
    ELSE IF res = "ok" THEN [table EXCEPT ![id].verified = @ + 1]
    ELSE IF res = "CodeMismatch" THEN [table EXCEPT ![id].wrong = @ + 1]
    ELSE table

\* Lines 162-198: the UPDATE of the branch, then the return or the throw.
VerifyUpdate(c) ==
    /\ calls[c].pc = "vUpdate"
    /\ otps' = Noted(calls[c].rec, calls[c].res,
                     ApplyVerdict(calls[c].rec, calls[c].res))
    /\ Return(c, "verify", calls[c].phone, calls[c].purpose,
              calls[c].rec, calls[c].res, calls[c].code)
    /\ UNCHANGED <<nextId, now, limiter, accounts>>

(* ----------------------------- resendOTP ------------------------------ *)

\* Lines 298-307: the one-minute guard.
ResendCheck(c, phone, purpose) ==
    /\ calls[c].pc = "idle"
    /\ IF TooSoon(CleanPhone(phone), purpose)
       THEN Return(c, "resend", CleanPhone(phone), purpose, 0, "TooSoon", "none")
       ELSE /\ calls' = [calls EXCEPT ![c] =
                           [IdleCall EXCEPT !.pc = "rInvalidate",
                                            !.op = "resend",
                                            !.phone = CleanPhone(phone),
                                            !.purpose = purpose]]
            /\ ret' = NoRet
    /\ UNCHANGED <<otps, nextId, now, limiter, accounts>>

\* Variant of ResendInvalidate that goes on to the issue without the UPDATE.
ResendInvalidateSkipping(c) ==
    /\ calls[c].pc = "rInvalidate"
    /\ calls' = [calls EXCEPT ![c].pc = "rIssue"]
    /\ ret' = NoRet
    /\ UNCHANGED <<otps, nextId, now, limiter, accounts>>

\* Lines 309-313: mark the previous OTPs used.
ResendInvalidate(c) ==
    /\ calls[c].pc = "rInvalidate"
    /\ otps' = [id \in Ids |->
                  IF id \in ToInvalidate(calls[c].phone, calls[c].purpose)
                  THEN [otps[id] EXCEPT !.used = TRUE, !.resent = TRUE]
                  ELSE otps[id]]
    /\ calls' = [calls EXCEPT ![c].pc = "rIssue"]
    /\ ret' = NoRet
    /\ UNCHANGED <<nextId, now, limiter, accounts>>

\* Line 316: return await this.sendOTP(phone, purpose).
ResendIssue(c, code) ==
    /\ calls[c].pc = "rIssue"
    /\ CheckAndGenerate(c, "resend", calls[c].phone, calls[c].purpose, code)
    /\ UNCHANGED <<otps, nextId, now, limiter, accounts>>

(* -------------------------- cleanExpiredOTPs -------------------------- *)

CleanExpiredOTPs ==
    /\ Swept # {}
    /\ otps' = [id \in Ids \ Swept |-> otps[id]]
    /\ ret' = NoRet
    /\ UNCHANGED <<nextId, now, calls, limiter, accounts>>

(* ------------------------------- clock -------------------------------- *)

\* The clock moves on to a later reading among those of instants.
Tick(instants) ==
    /\ \E t \in instants : t > now /\ now' = t
    /\ ret' = NoRet
    /\ UNCHANGED <<otps, nextId, calls, limiter, accounts>>

(* ---------------------------- RateLimiter ----------------------------- *)

\* otpLimiterInstance.setKeyGenerator: `${req.ip}-${req.body.phone || 'unknown'}`
KeyOf(ip, phone) ==
    ip \o <<"-">> \o (IF phone = NoPhone THEN <<"u", "n", "k", "n", "o", "w", "n">>
                      ELSE phone)

\* The middleware decides on a request: it calls next() (status "next") or
\* answers 429. passed is history: the number of requests of the key passed
\* on since its resetTime was set.
Decide(key, route, entry, status) ==
    /\ requests' = [k \in DOMAIN requests \cup {key} |->
                       IF k = key THEN entry ELSE requests[k]]
    /\ reply' = [key |-> key, route |-> route, status |-> status]

\* Variant of LimiterRequest that refuses only above max.
LimiterRequestLate(route, ip, phone) ==
    /\ LET key == KeyOf(ip, phone)
           data == requests[key]
       IN  IF key \notin DOMAIN requests
           THEN Decide(key, route, [count |-> 1, resetTime |-> now, passed |-> 1],
                       "next")
           ELSE IF now - data.resetTime > OtpLimitWindow
           THEN Decide(key, route, [count |-> 1, resetTime |-> now, passed |-> 1],
                       "next")
           ELSE IF data.count > OtpLimitMax
           THEN Decide(key, route, data, "429")
           ELSE Decide(key, route, [data EXCEPT !.count = @ + 1, !.passed = @ + 1],
                       "next")
    /\ UNCHANGED <<otps, nextId, now, calls, ret, accounts>>

\* Variant of LimiterRequest in which a refused request restarts the window.
LimiterRequestSliding(route, ip, phone) ==
    /\ LET key == KeyOf(ip, phone)
           data == requests[key]
       IN  IF key \notin DOMAIN requests
           THEN Decide(key, route, [count |-> 1, resetTime |-> now, passed |-> 1],
                       "next")
           ELSE IF now - data.resetTime > OtpLimitWindow
           THEN Decide(key, route, [count |-> 1, resetTime |-> now, passed |-> 1],
                       "next")
           ELSE IF data.count >= OtpLimitMax
           THEN Decide(key, route, [data EXCEPT !.resetTime = now], "429")
           ELSE Decide(key, route, [data EXCEPT !.count = @ + 1, !.passed = @ + 1],
                       "next")
    /\ UNCHANGED <<otps, nextId, now, calls, ret, accounts>>

\* RateLimiter.middleware, for the OTP limiter.
LimiterRequest(route, ip, phone) ==
    /\ LET key == KeyOf(ip, phone)
           data == requests[key]
       IN  IF key \notin DOMAIN requests
           THEN Decide(key, route, [count |-> 1, resetTime |-> now, passed |-> 1],
                       "next")
           ELSE IF now - data.resetTime > OtpLimitWindow
           THEN Decide(key, route, [count |-> 1, resetTime |-> now, passed |-> 1],
                       "next")
           ELSE IF data.count >= OtpLimitMax
           THEN Decide(key, route, data, "429")
           ELSE Decide(key, route, [data EXCEPT !.count = @ + 1, !.passed = @ + 1],
                       "next")
    /\ UNCHANGED <<otps, nextId, now, calls, ret, accounts>>

\* Variant of Stale that takes an entry as soon as its window is over.
StaleEarly == {key \in DOMAIN requests : now - requests[key].resetTime >= OtpLimitWindow}

\* The entries the constructor's setInterval callback deletes.
Stale == {key \in DOMAIN requests : now - requests[key].resetTime > OtpLimitWindow}

\* The setInterval callback of the constructor.
LimiterCleanup ==
    /\ Stale # {}
    /\ requests' = [key \in DOMAIN requests \ Stale |-> requests[key]]
    /\ reply' = NoReply
    /\ UNCHANGED <<otps, nextId, now, calls, ret, accounts>>

\* The clock moves on between requests to the limiter.
LimiterTick(instants) ==
    /\ \E t \in instants : t > now /\ now' = t
    /\ reply' = NoReply
    /\ UNCHANGED <<otps, nextId, calls, ret, requests, accounts>>

(* --------------------------- authController --------------------------- *)

\* ValidationService.validatePhone: digits only (the model's phone numbers
\* are shorter than the program's ten digits).
IsPhone(phone) == phone # <<>> /\ CleanPhone(phone) = phone

\* ValidationService.validateOTP: six characters (the model's codes are
\* digit strings).
IsOtp(otp) == Len(otp) = 6

\* The handler answers with status; user is the id the tokens in the body
\* were signed for, 0 when the body carries none.
Respond(route, status, user) ==
    resp' = [route |-> route, status |-> status, user |-> user]

\* SELECT ... FROM users WHERE id = ?
UserOf(id) == {phone \in DOMAIN users : users[phone].id = id}

\* POST /send-otp with purpose 'login', lines 17-40: the look-up of the user.
SendOtpLookup(c, phone, purpose) ==
    /\ calls[c].pc = "idle"
    /\ IsPhone(phone)
    /\ purpose = "login"
    /\ IF phone \notin DOMAIN users
       THEN Respond("send-otp", 404, 0) /\ UNCHANGED calls
       ELSE IF ~users[phone].active
       THEN Respond("send-otp", 401, 0) /\ UNCHANGED calls
       ELSE /\ calls' = [calls EXCEPT ![c] =
                           [IdleCall EXCEPT !.pc = "hSend", !.op = "send-otp",
                                            !.phone = phone,
                                            !.purpose = purpose]]
            /\ resp' = NoResp
    /\ ret' = NoRet
    /\ UNCHANGED <<otps, nextId, now, limiter, users>>

\* Line 43, after the look-up: OTPService.sendOTP(validPhone, purpose).
SendOtpCall(c, code) ==
    /\ calls[c].pc = "hSend"
    /\ CheckAndGenerate(c, "send", CleanPhone(calls[c].phone), calls[c].purpose,
                        code)
    /\ UNCHANGED <<otps, nextId, now, limiter, accounts>>

\* POST /send-otp with another purpose, lines 17-43: no look-up.
SendOtp(c, phone, purpose, code) ==
    /\ IsPhone(phone)
    /\ purpose # "login"
    /\ SendCheck(c, phone, purpose, code)

\* POST /verify-otp, lines 65-73, and POST /login, lines 172-180 (with
\* purpose 'login'): OTPService.verifyOTP(validPhone, validOTP, purpose).
VerifyOtp(c, phone, otp, purpose) ==
    /\ IsPhone(phone)
    /\ IsOtp(otp)
    /\ VerifySelect(c, phone, otp, purpose)

\* POST /resend-otp, lines 143-150: OTPService.resendOTP(validPhone, purpose).
ResendOtp(c, phone, purpose) ==
    /\ IsPhone(phone)
    /\ ResendCheck(c, phone, purpose)

\* POST /verify-otp, lines 75-81: verifyOTP has just returned to the
\* handler, which looks the user up.
VerifyOtpUser(c) ==
    /\ calls[c].pc = "idle"
    /\ ret.call = c /\ ret.op = "verify" /\ ret.res = "ok"
    /\ calls' = [calls EXCEPT ![c] =
                    [IdleCall EXCEPT !.pc = "vUser", !.op = "verify-otp",
                                     !.phone = ret.phone,
                                     !.purpose = ret.purpose,
                                     !.rec = IF ret.phone \in DOMAIN users
                                             THEN users[ret.phone].id ELSE 0]]
    /\ ret' = NoRet
    /\ resp' = NoResp
    /\ UNCHANGED <<otps, nextId, now, limiter, users>>

\* POST /verify-otp, lines 83-137: the UPDATE of the user found, or the
\* INSERT of a new one (which the UNIQUE phone refuses if the user has been
\* inserted meanwhile), then the tokens in the answer. tokens is history: a
\* token pair was signed for the user's id.
VerifyOtpRespond(c) ==
    /\ calls[c].pc = "vUser"
    /\ LET phone == calls[c].phone
       IN  IF calls[c].rec # 0
           THEN /\ users' = [users EXCEPT ![phone].verified = TRUE,
                                          ![phone].tokens = TRUE]
                /\ Respond("verify-otp", 200, calls[c].rec)
           ELSE IF phone \in DOMAIN users
           THEN /\ users' = users
                /\ Respond("verify-otp", 500, 0)
           ELSE /\ users' = [p \in DOMAIN users \cup {phone} |->
                               IF p = phone
                               THEN [id |-> Cardinality(DOMAIN users) + 1,
                                     verified |-> TRUE, active |-> TRUE,
                                     tokens |-> TRUE]
                               ELSE users[p]]
                /\ Respond("verify-otp", 200, Cardinality(DOMAIN users) + 1)
    /\ calls' = [calls EXCEPT ![c] = IdleCall]
    /\ ret' = NoRet
    /\ UNCHANGED <<otps, nextId, now, limiter>>

\* POST /login, lines 182-233: verifyOTP(.., 'login') has just returned to
\* the handler, which reads the active user and answers.
LoginRespond(c) ==
    /\ calls[c].pc = "idle"
    /\ ret.call = c /\ ret.op = "verify" /\ ret.res = "ok"
    /\ ret.purpose = "login"
    /\ IF ret.phone \notin DOMAIN users \/ ~users[ret.phone].active
       THEN users' = users /\ Respond("login", 401, 0)
       ELSE IF ~users[ret.phone].verified
       THEN users' = users /\ Respond("login", 401, 0)
       ELSE /\ users' = [users EXCEPT ![ret.phone].tokens = TRUE]
            /\ Respond("login", 200, users[ret.phone].id)
    /\ ret' = NoRet
    /\ UNCHANGED <<otps, nextId, now, calls, limiter>>

\* POST /refresh, lines 238-281, with a refresh token that carries id: one
\* that was signed for it, or one that jwt.verify rejects.
Refresh(id) ==
    /\ IF \E phone \in UserOf(id) : users[phone].tokens /\ users[phone].active
       THEN Respond("refresh", 200, id)
       ELSE Respond("refresh", 401, 0)
    /\ ret' = NoRet
    /\ UNCHANGED <<otps, nextId, now, calls, limiter, users>>

\* An administrator deactivates an account: is_active = FALSE, the state
\* the handlers test for.
Deactivate(phone) ==
    /\ phone \in DOMAIN users
    /\ users[phone].active
    /\ users' = [users EXCEPT ![phone].active = FALSE]
    /\ ret' = NoRet
    /\ resp' = NoResp
    /\ UNCHANGED <<otps, nextId, now, calls, limiter>>

(* --------------------------- specifications --------------------------- *)

\* The table takes no more than cap rows.
Room(cap) == nextId <= cap

Quiet == \A c \in Calls : calls[c].pc = "idle"

\* One subscriber, one purpose, one request at a time, each served within
\* the clock reading at which it arrived: at 0, after the resend window (1)
\* or after the expiry of what was issued before (11). The phone is typed
\* with a separator when the code is asked for and without when it is
\* verified or asked for again.
Next ==
    \/ \E code \in GeneratedCodes : SendCheck("c1", PhoneASpaced, "login", code)
    \/ Room(MaxRows) /\ SendInsert("c1")
    \/ SendDeliver("c1")
    \/ \E code \in GeneratedCodes : VerifySelect("c1", PhoneA, code, "login")
    \/ VerifyUpdate("c1")
    \/ ResendCheck("c1", PhoneA, "login")
    \/ ResendInvalidate("c1")
    \/ \E code \in GeneratedCodes : ResendIssue("c1", code)
    \/ Quiet /\ CleanExpiredOTPs
    \/ Quiet /\ Tick({1, 11})

Spec == Init /\ [][Next]_vars

\* One subscriber, one purpose, requests served concurrently; the clock
\* moves between requests, past the expiry of what was issued at 0.
NextRace ==
    \/ \E c \in Calls, code \in GeneratedCodes :
          SendCheck(c, PhoneA, "login", code)
    \/ \E c \in Calls : Room(MaxRaceRows) /\ SendInsert(c)
    \/ \E c \in Calls : SendDeliver(c)
    \/ \E c \in Calls, code \in GeneratedCodes :
          VerifySelect(c, PhoneA, code, "login")
    \/ \E c \in Calls : VerifyUpdate(c)
    \/ \E c \in Calls : ResendCheck(c, PhoneA, "login")
    \/ \E c \in Calls : ResendInvalidate(c)
    \/ \E c \in Calls, code \in GeneratedCodes : ResendIssue(c, code)
    \/ CleanExpiredOTPs
    \/ Quiet /\ Tick({11})

SpecRace == Init /\ [][NextRace]_vars

Targets == {<<PhoneA, "login">>, <<PhoneA, "registration">>, <<PhoneB, "login">>}

\* Issue and resend for two subscribers, one request at a time, with the
\* clock at 0 or at the ends of the two windows (1, and 4 and 5).
NextRate ==
    \/ \E target \in Targets : SendCheck("c1", target[1], target[2], "100000")
    \/ Room(MaxIssued) /\ SendInsert("c1")
    \/ SendDeliver("c1")
    \/ \E target \in Targets : ResendCheck("c1", target[1], target[2])
    \/ ResendInvalidate("c1")
    \/ ResendIssue("c1", "100000")
    \/ Quiet /\ CleanExpiredOTPs
    \/ Quiet /\ Tick({1, 4, 5})

SpecRate == Init /\ [][NextRate]_vars

\* Issue and verify across two purposes, one request at a time.
NextPurpose ==
    \/ \E purpose \in Purposes, code \in GeneratedCodes :
          SendCheck("c1", PhoneA, purpose, code)
    \/ Room(MaxRows) /\ SendInsert("c1")
    \/ SendDeliver("c1")
    \/ \E code \in GeneratedCodes, purpose \in Purposes :
          VerifySelect("c1", PhoneA, code, purpose)
    \/ VerifyUpdate("c1")

SpecPurpose == Init /\ [][NextPurpose]_vars

\* One subscriber, one purpose, one request at a time, with as many rows as
\* the rate limit takes: every way a call can fail is met, the rate limit of
\* issue and of resend included.
NextFail ==
    \/ SendCheck("c1", PhoneA, "login", "100000")
    \/ Room(MaxIssued) /\ SendInsert("c1")
    \/ SendDeliver("c1")
    \/ \E code \in GeneratedCodes : VerifySelect("c1", PhoneA, code, "login")
    \/ VerifyUpdate("c1")
    \/ ResendCheck("c1", PhoneA, "login")
    \/ ResendInvalidate("c1")
    \/ ResendIssue("c1", "100000")
    \/ Quiet /\ Tick({1, 11})

SpecFail == Init /\ [][NextFail]_vars

\* Concurrent issue for one subscriber and purpose, with room for one row
\* more than the rate limit allows; the clock moves between requests, to
\* within (4) and past (6) the window of what was issued at 0.
NextIssueRace ==
    \/ \E c \in Calls : SendCheck(c, PhoneA, "login", "100000")
    \/ \E c \in Calls : Room(MaxRacedIssues) /\ SendInsert(c)
    \/ \E c \in Calls : SendDeliver(c)
    \/ Quiet /\ Tick({4, 6})

SpecIssueRace == Init /\ [][NextIssueRace]_vars

\* The OTP limiter alone: requests with and without a phone from one
\* address, at 0, at and after the end of the first window (5, 6), and at
\* and after the end of a window begun at 6 (11, 12).
NextLimiter ==
    \/ \E route \in LimitedRoutes, phone \in {PhoneA, NoPhone} :
          LimiterRequest(route, Ip1, phone)
    \/ LimiterCleanup
    \/ LimiterTick({5, 6, 11, 12})

SpecLimiter == Init /\ [][NextLimiter]_vars

\* One subscriber, one purpose, one request at a time, issue, verify and
\* resend with the sweep running between the requests, all within the first
\* five minutes (0, 1, 4), with room for one row more than the rate limit
\* allows.
NextSweep ==
    \/ SendCheck("c1", PhoneA, "login", "100000")
    \/ Room(MaxSwept) /\ SendInsert("c1")
    \/ SendDeliver("c1")
    \/ VerifySelect("c1", PhoneA, "100000", "login")
    \/ VerifyUpdate("c1")
    \/ ResendCheck("c1", PhoneA, "login")
    \/ ResendInvalidate("c1")
    \/ ResendIssue("c1", "100000")
    \/ Quiet /\ CleanExpiredOTPs
    \/ Quiet /\ Tick({1, 4})

SpecSweep == Init /\ [][NextSweep]_vars

\* The auth endpoints, one request at a time, for two phones and both
\* purposes, with one generated code; accounts are deactivated between
\* requests, and refresh tokens are presented for the ids 1 and 2.
NextAuth ==
    \/ \E phone \in {PhoneA, PhoneB} : SendOtpLookup("c1", phone, "login")
    \/ SendOtpCall("c1", "100000")
    \/ \E phone \in {PhoneA, PhoneB}, purpose \in Purposes :
          SendOtp("c1", phone, purpose, "100000")
    \/ Room(MaxRows) /\ SendInsert("c1")
    \/ SendDeliver("c1")
    \/ \E phone \in {PhoneA, PhoneB}, purpose \in Purposes :
          VerifyOtp("c1", phone, "100000", purpose)
    \/ VerifyUpdate("c1")
    \/ VerifyOtpUser("c1")
    \/ VerifyOtpRespond("c1")
    \/ LoginRespond("c1")
    \/ \E phone \in {PhoneA, PhoneB}, purpose \in Purposes :
          ResendOtp("c1", phone, purpose)
    \/ ResendInvalidate("c1")
    \/ ResendIssue("c1", "100000")
    \/ \E id \in {1, 2} : Refresh(id)
    \/ \E phone \in {PhoneA, PhoneB} : Quiet /\ Deactivate(phone)

SpecAuth == Init /\ [][NextAuth]_vars

(* ----------------------------- properties ----------------------------- *)

\* Call c enters op in this step: it leaves idle carrying op, or returns from
\* op at once.
Began(c, op) ==
    /\ calls[c].pc = "idle"
    /\ calls'[c].op = op \/ (ret'.call = c /\ ret'.op = op)

\* What c was called with and what it decided in the step that ran its first
\* query: its (normalised) phone, purpose, code, res and rec.
Asked(c) == IF ret'.call = c THEN ret' ELSE calls'[c]

\* The row the step's SELECT handed to c.
Fetched(c) == otps[calls'[c].rec]

\* The rows of (phone, purpose) that carry code.
Carrying(phone, purpose, code) ==
    {id \in Ids : /\ otps[id].phone = phone
                  /\ otps[id].purpose = purpose
                  /\ otps[id].code = code}

\* Rows of phone created less than window minutes ago.
Within(phone, window) ==
    {id \in Ids : otps[id].phone = phone /\ now - otps[id].created < window}

\* code was just issued for (phone, purpose): it is on the one unused row,
\* fresh and untried.
JustIssued(phone, purpose, code) ==
    \E id \in Carrying(phone, purpose, code) :
        /\ ~otps[id].used /\ otps[id].attempts = 0 /\ now <= otps[id].expires
        /\ \A j \in Ids \ {id} : otps[j].phone = phone /\ otps[j].purpose = purpose
                                    => otps[j].used

\* code was verified for (phone, purpose) and not issued again since.
Consumed(phone, purpose, code) ==
    \E id \in Carrying(phone, purpose, code) :
        /\ otps[id].verified > 0
        /\ \A j \in Carrying(phone, purpose, code) : j <= id

\* code is the old code of (phone, purpose): a resend invalidated the row
\* that carries it, a newer row was issued since, and no unused row carries
\* the same code.
OldCode(phone, purpose, code) ==
    /\ \E id \in Carrying(phone, purpose, code) :
          /\ otps[id].resent
          /\ \E j \in Ids : j > id /\ otps[j].phone = phone
                                   /\ otps[j].purpose = purpose
    /\ \A id \in Carrying(phone, purpose, code) : otps[id].used

\* C1: issue followed by verify with the issued code succeeds, and any later
\* verify with that code for the same (phone, purpose) fails with
\* NoActiveCode, Expired or AttemptsExhausted, whatever else is in the store.
C1_VerifySucceedsOnce ==
    [][\A c \in Calls :
          Began(c, "verify") =>
            /\ JustIssued(Asked(c).phone, Asked(c).purpose, Asked(c).code)
               => Asked(c).res = "ok"
            /\ Consumed(Asked(c).phone, Asked(c).purpose, Asked(c).code)
               => Asked(c).res \in {"NoActiveCode", "Expired", "AttemptsExhausted"}]_vars

\* C2: every row has 0 <= attempts <= maxAttempts, also under concurrent
\* verify calls with wrong codes.
C2_AttemptsWithinMax ==
    \A id \in Ids : otps[id].attempts \in 0..MaxAttempts

\* C3: at most one verify call ever returns success for a row.
C3_SingleSuccess ==
    \A id \in Ids : otps[id].verified <= 1

\* C4: a wrong code against an active row throws CodeMismatch and adds one to
\* its attempts; once maxAttempts wrong attempts were made on the row, the
\* next verify that meets it (unexpired), whatever its code, throws
\* AttemptsExhausted and marks it used.
C4_WrongAttemptsCounted ==
    [][\A c \in Calls :
          /\ Began(c, "verify") /\ calls'[c].pc = "vUpdate" =>
               /\ /\ now <= Fetched(c).expires
                  /\ Fetched(c).wrong < MaxAttempts
                  /\ Fetched(c).code # calls'[c].code
                  => calls'[c].res = "CodeMismatch"
               /\ now <= Fetched(c).expires /\ Fetched(c).wrong >= MaxAttempts
                  => calls'[c].res = "AttemptsExhausted"
          /\ VerifyUpdate(c) /\ calls[c].rec \in Ids =>
               /\ ret'.res = calls[c].res
               /\ calls[c].res = "CodeMismatch" =>
                    otps'[calls[c].rec].attempts = otps[calls[c].rec].attempts + 1
               /\ calls[c].res = "AttemptsExhausted" => otps'[calls[c].rec].used]_vars

C4_Witness ==
    /\ ret.op = "verify" /\ ret.res = "AttemptsExhausted" /\ ret.rec \in Ids
    /\ otps[ret.rec].wrong = MaxAttempts
    /\ otps[ret.rec].code = ret.code
    /\ otps[ret.rec].used

\* C5: a verify that meets a row after its expiresAt throws Expired and marks
\* the row used, whatever the code and whatever the row's attempts.
C5_ExpiredFirst ==
    [][\A c \in Calls :
          /\ /\ Began(c, "verify") /\ calls'[c].pc = "vUpdate"
             /\ now > Fetched(c).expires
             => calls'[c].res = "Expired"
          /\ VerifyUpdate(c) /\ calls[c].res = "Expired" =>
               /\ ret'.res = "Expired"
               /\ calls[c].rec \in Ids => otps'[calls[c].rec].used]_vars

C5_Witness ==
    /\ ret.op = "verify" /\ ret.res = "Expired" /\ ret.rec \in Ids
    /\ otps[ret.rec].attempts >= MaxAttempts
    /\ otps[ret.rec].code = ret.code
    /\ otps[ret.rec].used

\* C6: issue throws RateLimitExceeded, inserting no row and sending nothing,
\* whenever the table holds 3 or more rows of the phone, of any purpose,
\* created within the last 5 minutes.
C6_RateLimit ==
    [][\A c \in Calls :
          /\ /\ Began(c, "send")
             /\ Cardinality(Within(Asked(c).phone, RateWindow)) >= RateMax
             => /\ ret'.call = c /\ ret'.res = "RateLimitExceeded"
                /\ otps' = otps /\ calls'[c] = IdleCall
          /\ \A code \in GeneratedCodes :
               /\ ResendIssue(c, code)
               /\ Cardinality(Within(calls[c].phone, RateWindow)) >= RateMax
               => /\ ret'.call = c /\ ret'.res = "RateLimitExceeded"
                  /\ otps' = otps /\ calls'[c] = IdleCall]_vars

C6_Witness ==
    /\ ret.op = "send" /\ ret.res = "RateLimitExceeded"
    /\ Cardinality(Within(ret.phone, RateWindow)) = RateMax
    /\ \E i, j \in Within(ret.phone, RateWindow) : otps[i].purpose # otps[j].purpose
    /\ nextId = RateMax + 1

C8_TooSoonPerPurpose ==
    [][\A c \in Calls :
          Began(c, "resend") =>
            ((ret'.call = c /\ ret'.res = "TooSoon") <=>
               \E id \in Within(Asked(c).phone, ResendWindow) :
                   otps[id].purpose = Asked(c).purpose)]_vars

\* C8 as amended: resend throws TooSoon exactly when a row of the phone, of
\* whatever purpose, was created within the last 60 seconds; a row of
\* another purpose of the phone does cause it, a row of another phone does
\* not.
C8_TooSoonPerPhone ==
    [][\A c \in Calls :
          Began(c, "resend") =>
            ((ret'.call = c /\ ret'.res = "TooSoon") <=>
               Within(Asked(c).phone, ResendWindow) # {})]_vars

C8_Witness ==
    /\ ret.op = "resend" /\ ret.res = "TooSoon"
    /\ Within(ret.phone, ResendWindow) # {}
    /\ \A id \in Within(ret.phone, ResendWindow) : otps[id].purpose # ret.purpose

\* C9: verify(phone, code, P) meets only a row of purpose P, succeeds only by
\* consuming such a row, and changes no row of another purpose.
C9_PurposeScoped ==
    [][\A c \in Calls :
          /\ Began(c, "verify") /\ calls'[c].pc = "vUpdate"
             => /\ Fetched(c).purpose = calls'[c].purpose
                /\ Fetched(c).phone = calls'[c].phone
          /\ VerifyUpdate(c) =>
               /\ \A id \in Ids : otps[id].purpose # calls[c].purpose
                                    => id \in DOMAIN otps' /\ otps'[id] = otps[id]
               /\ ret'.res = "ok" /\ ret'.rec \in Ids =>
                    /\ otps[ret'.rec].purpose = ret'.purpose
                    /\ otps'[ret'.rec].used]_vars

C9_Witness ==
    /\ ret.op = "verify" /\ ret.res = "NoActiveCode"
    /\ \E id \in Ids : /\ otps[id].phone = ret.phone
                       /\ otps[id].purpose # ret.purpose
                       /\ otps[id].code = ret.code
                       /\ ~otps[id].used /\ otps[id].attempts = 0

\* C10: no row goes from used = TRUE back to used = FALSE.
C10_UsedMonotonic ==
    [][\A id \in Ids \cap DOMAIN otps' : otps[id].used => otps'[id].used]_vars

C10_Witness ==
    /\ ret.op = "verify" /\ ret.res = "CodeMismatch" /\ ret.rec \in Ids
    /\ otps[ret.rec].used

\* All rows of phone, of whatever purpose.
RowsOf(phone) == {id \in Ids : otps[id].phone = phone}

\* C11: issue into a table with no row of the phone inserts exactly one row,
\* with a 6-digit code, expiresAt = issue time + 10 minutes (later than its
\* creation), attempts = 0 and used = FALSE; verify with that code then
\* succeeds and sets used = TRUE; a re-verify with the same code throws
\* NoActiveCode.
C11_IssueVerifyReverify ==
    [][\A c \in Calls :
          /\ SendInsert(c) /\ RowsOf(calls[c].phone) = {} =>
               /\ RowsOf(calls[c].phone)' = {nextId}
               /\ Len(otps'[nextId].code) = 6
               /\ otps'[nextId].expires = now + OtpTTL
               /\ otps'[nextId].expires > otps'[nextId].created
               /\ otps'[nextId].attempts = 0
               /\ ~otps'[nextId].used
               /\ \A id \in Ids : otps'[id] = otps[id]
          /\ /\ Began(c, "verify")
             /\ \E id \in Ids :
                   /\ RowsOf(Asked(c).phone) = {id}
                   /\ otps[id].purpose = Asked(c).purpose
                   /\ otps[id].code = Asked(c).code
                   /\ ~otps[id].used /\ otps[id].attempts = 0
                   /\ now <= otps[id].expires
             => calls'[c].pc = "vUpdate" /\ calls'[c].res = "ok"
          /\ VerifyUpdate(c) /\ calls[c].res = "ok" /\ calls[c].rec \in Ids =>
               ret'.res = "ok" /\ otps'[calls[c].rec].used
          /\ /\ Began(c, "verify")
             /\ \E id \in Ids :
                   /\ RowsOf(Asked(c).phone) = {id}
                   /\ otps[id].purpose = Asked(c).purpose
                   /\ otps[id].code = Asked(c).code
                   /\ otps[id].verified > 0 /\ otps[id].used
             => ret'.call = c /\ ret'.res = "NoActiveCode"]_vars

C11_Witness ==
    /\ ret.op = "verify" /\ ret.res = "NoActiveCode"
    /\ nextId = 2 /\ Ids = {1}
    /\ otps[1].phone = ret.phone /\ otps[1].purpose = ret.purpose
    /\ otps[1].code = ret.code
    /\ otps[1].verified = 1 /\ otps[1].used /\ otps[1].attempts = 0

\* C12: when the SMS delivery of an issue fails, the call throws
\* DeliveryFailed and the row inserted before the delivery stays as it was,
\* unused; a verify with its code that follows, before its expiry, meets that
\* row and succeeds.
C12_DeliveryFailureKeepsRow ==
    [][\A c \in Calls :
          /\ SendDeliver(c) /\ ret'.res = "DeliveryFailed" =>
               /\ ret'.call = c /\ ret'.rec = calls[c].rec
               /\ otps' = otps
               /\ calls[c].rec \in Ids /\ ~otps[calls[c].rec].used
          /\ /\ Began(c, "verify")
             /\ ret.res = "DeliveryFailed" /\ ret.rec \in Ids
             /\ Asked(c).phone = ret.phone /\ Asked(c).purpose = ret.purpose
             /\ Asked(c).code = otps[ret.rec].code
             /\ now <= otps[ret.rec].expires
             /\ Latest(ret.phone, ret.purpose) = {ret.rec}
             => /\ calls'[c].pc = "vUpdate" /\ calls'[c].rec = ret.rec
                /\ calls'[c].res = "ok"]_vars

C12_Witness ==
    /\ ret.op = "send" /\ ret.res = "DeliveryFailed" /\ ret.rec \in Ids
    /\ ~otps[ret.rec].used /\ otps[ret.rec].attempts = 0
    /\ now <= otps[ret.rec].expires
    /\ Latest(ret.phone, ret.purpose) = {ret.rec}
    /\ \E id \in Ids \ {ret.rec} : otps[id].phone = ret.phone

\* The columns of a row, without its history.
Stored(row) ==
    [phone |-> row.phone, code |-> row.code, purpose |-> row.purpose,
     expires |-> row.expires, used |-> row.used, attempts |-> row.attempts,
     created |-> row.created]

\* C13: a failing issue, verify or resend either only marks rows used or
\* counts an attempt, or leaves the table untouched: a failing issue or
\* resend has inserted no row, a resend that throws RateLimitExceeded has
\* changed no row, and a failing verify changes a row only by marking it used
\* or by counting an attempt.
C13_FailuresOnlyMarkOrCount ==
    [][\A c \in Calls :
          /\ ret'.call = c /\ ret'.res # "ok" /\ ret'.op # "verify"
             => ret'.rec = 0
          /\ ResendInvalidate(c) /\ RateLimited(calls[c].phone) => otps' = otps
          /\ VerifyUpdate(c) /\ calls[c].res # "ok" =>
               \A id \in Ids :
                  \/ otps'[id] = otps[id]
                  \/ Stored(otps'[id]) = [Stored(otps[id]) EXCEPT !.used = TRUE]
                  \/ Stored(otps'[id]) =
                        [Stored(otps[id]) EXCEPT !.attempts = @ + 1]]_vars

\* C13 as amended: every failing call throws one of the named errors, and
\* what it leaves behind depends on the error. verify: NoActiveCode changes
\* nothing, Expired and AttemptsExhausted only mark the fetched row used,
\* CodeMismatch only adds one to its attempts. issue: RateLimitExceeded
\* changes nothing, DeliveryFailed leaves behind the row the call inserted.
\* resend: TooSoon changes nothing, but a resend that throws
\* RateLimitExceeded (or DeliveryFailed) has first marked every unused row of
\* the phone used.
C13_FailureEffects ==
    [][\A c \in Calls :
          /\ ret'.call = c =>
               ret'.res \in {"ok", "RateLimitExceeded", "DeliveryFailed",
                             "NoActiveCode", "Expired", "AttemptsExhausted",
                             "CodeMismatch", "TooSoon"}
          /\ /\ Began(c, "verify") \/ Began(c, "send") \/ Began(c, "resend")
             /\ ret'.call = c
             => /\ ret'.res = CASE ret'.op = "verify" -> "NoActiveCode"
                                [] ret'.op = "send" -> "RateLimitExceeded"
                                [] OTHER -> "TooSoon"
                /\ ret'.rec = 0
                /\ otps' = otps
          /\ VerifyUpdate(c) /\ calls[c].res # "ok" /\ calls[c].rec \in Ids =>
               /\ ret'.res = calls[c].res
               /\ \A id \in Ids \ {calls[c].rec} : otps'[id] = otps[id]
               /\ Stored(otps'[calls[c].rec]) =
                     IF calls[c].res = "CodeMismatch"
                     THEN [Stored(otps[calls[c].rec]) EXCEPT !.attempts = @ + 1]
                     ELSE [Stored(otps[calls[c].rec]) EXCEPT !.used = TRUE]
          /\ SendDeliver(c) /\ ret'.res = "DeliveryFailed" =>
               /\ ret'.rec = calls[c].rec /\ calls[c].rec \in Ids
               /\ otps' = otps
          /\ ResendInvalidate(c) /\ RateLimited(calls[c].phone) =>
               \A id \in Ids :
                  Stored(otps'[id]) =
                     IF otps[id].phone = calls[c].phone
                     THEN [Stored(otps[id]) EXCEPT !.used = TRUE]
                     ELSE Stored(otps[id])
          /\ calls[c].pc = "rIssue" /\ RateLimited(calls[c].phone) /\ ret'.call = c
             => ret'.res = "RateLimitExceeded" /\ ret'.rec = 0 /\ otps' = otps]_vars

C13_Witness ==
    /\ ret.op = "resend" /\ ret.res = "RateLimitExceeded"
    /\ Cardinality(RowsOf(ret.phone)) >= RateMax
    /\ \A id \in RowsOf(ret.phone) : otps[id].used
    /\ \E id \in RowsOf(ret.phone) :
          /\ otps[id].resent /\ otps[id].verified = 0
          /\ otps[id].attempts < MaxAttempts /\ now <= otps[id].expires
          /\ \A j \in RowsOf(ret.phone) : j <= id

\* C14: for each key the OTP limiter passes on at most max (10) requests
\* between the key's resetTime and resetTime + windowMs, each of them inside
\* that window; every further request of the key inside the window, to
\* send-otp or resend-otp alike, is answered 429, is not passed on and leaves
\* the counters as they are.
C14_LimiterWindow ==
    [][/\ \A key \in DOMAIN requests' : requests'[key].passed <= OtpLimitMax
       /\ reply'.status = "next" =>
            /\ reply'.key \in DOMAIN requests'
            /\ now >= requests'[reply'.key].resetTime
            /\ now - requests'[reply'.key].resetTime <= OtpLimitWindow
       /\ \A route \in LimitedRoutes, phone \in {PhoneA, NoPhone} :
            /\ LimiterRequest(route, Ip1, phone)
            /\ KeyOf(Ip1, phone) \in DOMAIN requests
            /\ now - requests[KeyOf(Ip1, phone)].resetTime <= OtpLimitWindow
            /\ requests[KeyOf(Ip1, phone)].passed >= OtpLimitMax
            => /\ reply'.status = "429" /\ reply'.key = KeyOf(Ip1, phone)
               /\ requests' = requests]_vars

C14_Witness ==
    /\ reply.status = "429" /\ reply.route = "resend-otp"
    /\ reply.key \in DOMAIN requests
    /\ requests[reply.key].passed = OtpLimitMax
    /\ requests[reply.key].resetTime > 0
    /\ now - requests[reply.key].resetTime = OtpLimitWindow

\* C15: a row that is used is never modified again: no step of a verify or a
\* resend, later or concurrent, changes any of its columns.
C15_TerminalRowsFrozen ==
    [][\A id \in Ids \cap DOMAIN otps' :
          otps[id].used => Stored(otps'[id]) = Stored(otps[id])]_vars

\* C16: issue decides on the count its query returned and inserts without
\* looking again, so two concurrent issues of one (phone, purpose) can both
\* pass the check and both insert: more than 3 rows of one phone created
\* within the same 5 minutes are reachable.
C16_IssueRace ==
    [][\A c \in Calls :
          /\ Began(c, "send") =>
               ((ret'.call = c /\ ret'.res = "RateLimitExceeded") <=>
                  Cardinality(Within(Asked(c).phone, RateWindow)) >= RateMax)
          /\ SendInsert(c) =>
               /\ DOMAIN otps' = Ids \cup {nextId}
               /\ otps'[nextId].phone = calls[c].phone
               /\ otps'[nextId].purpose = calls[c].purpose
               /\ ~otps'[nextId].used
               /\ calls'[c].pc = "sDeliver"]_vars

C16_Witness ==
    /\ Cardinality(Within(PhoneA, RateWindow)) > RateMax
    /\ \A id \in Within(PhoneA, RateWindow) :
          otps[id].purpose = "login" /\ ~otps[id].used
    /\ Quiet

\* C17: no step of an issue changes a row that already exists: the insert
\* adds its row and leaves the earlier unused rows of the (phone, purpose)
\* unused, so that after two issues with no verify in between two unused,
\* unexpired rows of the (phone, purpose) coexist.
C17_IssueKeepsRows ==
    [][\A c \in Calls :
          /\ /\ \/ Began(c, "send")
                \/ calls[c].op = "send" /\ (SendInsert(c) \/ SendDeliver(c))
             => \A id \in Ids : id \in DOMAIN otps' /\ otps'[id] = otps[id]
          /\ SendInsert(c) /\ calls[c].op = "send" =>
               \A id \in Unused(calls[c].phone, calls[c].purpose) :
                  /\ {id, nextId} \subseteq Unused(calls[c].phone, calls[c].purpose)'
                  /\ now <= otps[id].expires =>
                       now <= otps'[id].expires /\ now <= otps'[nextId].expires]_vars

C17_Witness ==
    /\ ret.op = "send" /\ ret.res = "ok" /\ ret.rec = 2
    /\ Unused(ret.phone, ret.purpose) = {1, 2}
    /\ otps[1].attempts = 0 /\ otps[1].code # otps[2].code
    /\ now <= otps[1].expires /\ now <= otps[2].expires

\* C18: resend(phone, purpose) marks used exactly the unused rows of that
\* (phone, purpose) and then issues; rows of the phone with another purpose
\* and rows of other phones keep their used flag.
C18_ResendInvalidatesPurpose ==
    [][\A c \in Calls :
          ResendInvalidate(c) =>
            /\ calls'[c].pc = "rIssue"
            /\ \A id \in Ids :
                  otps'[id].used <=>
                     \/ otps[id].used
                     \/ /\ otps[id].phone = calls[c].phone
                        /\ otps[id].purpose = calls[c].purpose]_vars

\* C18 as amended: resend(phone, purpose) marks used exactly the unused rows
\* of that phone, whatever their purpose, changing nothing else in them, and
\* then issues for (phone, purpose); only rows of other phones keep their
\* used flag.
C18_ResendInvalidatesPhone ==
    [][\A c \in Calls :
          /\ ResendInvalidate(c) =>
               /\ calls'[c].pc = "rIssue"
               /\ calls'[c].phone = calls[c].phone
               /\ calls'[c].purpose = calls[c].purpose
               /\ DOMAIN otps' = Ids
               /\ \A id \in Ids :
                     Stored(otps'[id]) =
                        IF otps[id].phone = calls[c].phone
                        THEN [Stored(otps[id]) EXCEPT !.used = TRUE]
                        ELSE Stored(otps[id])
          /\ \A code \in GeneratedCodes :
               ResendIssue(c, code) =>
                 /\ otps' = otps
                 /\ \/ ret'.call = c /\ ret'.res = "RateLimitExceeded"
                    \/ /\ calls'[c].pc = "sInsert"
                       /\ calls'[c].phone = calls[c].phone
                       /\ calls'[c].purpose = calls[c].purpose
                       /\ calls'[c].code = code]_vars

C18_Witness ==
    \E c \in Calls :
       /\ calls[c].pc = "rIssue"
       /\ \E id \in Ids : /\ otps[id].phone = calls[c].phone
                          /\ otps[id].purpose # calls[c].purpose
                          /\ otps[id].resent /\ otps[id].used
       /\ \E id \in Ids : otps[id].phone # calls[c].phone /\ ~otps[id].used

\* C19: a verify with a wrong code that meets an unexpired row with attempts
\* left throws CodeMismatch and changes nothing but the attempts of that row,
\* by +1: the row stays unused and every other row stays as it is.
C19_MismatchOnlyCounts ==
    [][\A c \in Calls :
          /\ /\ Began(c, "verify") /\ calls'[c].pc = "vUpdate"
             /\ now <= Fetched(c).expires
             /\ Fetched(c).attempts < MaxAttempts
             /\ Fetched(c).code # calls'[c].code
             => calls'[c].res = "CodeMismatch" /\ otps' = otps
          /\ VerifyUpdate(c) /\ calls[c].res = "CodeMismatch" =>
               /\ ret'.res = "CodeMismatch"
               /\ calls[c].rec \in Ids /\ DOMAIN otps' = Ids
               /\ Stored(otps'[calls[c].rec]) =
                     [Stored(otps[calls[c].rec]) EXCEPT !.attempts = @ + 1]
               /\ ~otps'[calls[c].rec].used
               /\ \A id \in Ids \ {calls[c].rec} : otps'[id] = otps[id]]_vars

C19_Witness ==
    /\ ret.op = "verify" /\ ret.res = "CodeMismatch" /\ ret.rec \in Ids
    /\ ~otps[ret.rec].used /\ otps[ret.rec].attempts = MaxAttempts
    /\ otps[ret.rec].code # ret.code
    /\ \E id \in Ids \ {ret.rec} :
          /\ otps[id].phone = ret.phone /\ otps[id].purpose = ret.purpose
          /\ ~otps[id].used /\ otps[id].attempts = 0

\* C20: verify(phone, code, purpose) throws NoActiveCode exactly when the
\* (phone, purpose) has no unused row; otherwise it meets one row, unused and
\* of that (phone, purpose), than which no other such row was created later,
\* compares the code with that row only and modifies that row only: older
\* unused rows are neither compared against nor modified.
C20_VerifyMeetsLatest ==
    [][\A c \in Calls :
          /\ Began(c, "verify") =>
               /\ otps' = otps
               /\ (ret'.call = c /\ ret'.res = "NoActiveCode") <=>
                     Unused(Asked(c).phone, Asked(c).purpose) = {}
               /\ calls'[c].pc = "vUpdate" =>
                    /\ calls'[c].rec \in Unused(Asked(c).phone, Asked(c).purpose)
                    /\ \A id \in Unused(Asked(c).phone, Asked(c).purpose) :
                          otps[id].created <= Fetched(c).created
                    /\ calls'[c].res = "ok" => Fetched(c).code = calls'[c].code
                    /\ calls'[c].res = "CodeMismatch" =>
                          Fetched(c).code # calls'[c].code
          /\ VerifyUpdate(c) =>
               /\ ret'.rec = calls[c].rec
               /\ \A id \in Ids \ {calls[c].rec} :
                     id \in DOMAIN otps' /\ otps'[id] = otps[id]]_vars

C20_Witness ==
    /\ ret.op = "verify" /\ ret.res = "CodeMismatch" /\ ret.rec \in Ids
    /\ \E id \in Unused(ret.phone, ret.purpose) :
          /\ otps[id].created < otps[ret.rec].created
          /\ otps[id].code = ret.code
          /\ otps[id].attempts = 0 /\ otps[id].wrong = 0
          /\ now <= otps[id].expires

\* C21: no step of an issue, a verify or a resend removes a row; rows leave
\* the table only in a step of cleanExpiredOTPs, which touches no call and
\* no remaining row, and every row it removes is used or past its
\* expiresAt: an unused, unexpired row is never removed.
C21_OnlySweepDeletes ==
    [][/\ \A c \in Calls : calls'[c] # calls[c] => Ids \subseteq DOMAIN otps'
       /\ ~(Ids \subseteq DOMAIN otps') =>
            /\ calls' = calls /\ nextId' = nextId
            /\ DOMAIN otps' \subseteq Ids
            /\ \A id \in DOMAIN otps' : otps'[id] = otps[id]
            /\ \A id \in Ids \ DOMAIN otps' :
                  otps[id].used \/ otps[id].expires < now
            /\ \A id \in Ids : ~otps[id].used /\ now <= otps[id].expires
                                 => id \in DOMAIN otps']_vars

C21_Witness ==
    /\ Ids = {2} /\ nextId = 3 /\ ret = NoRet /\ Quiet
    /\ ~otps[2].used /\ otps[2].expires = now

\* C22: once a newer code was issued for a (phone, purpose), the code of an
\* earlier row of it is never verified: every verify that returns success
\* consumes the row of the (phone, purpose) that was issued last of all,
\* used or not.
C22_VerifyConsumesNewest ==
    [][\A c \in Calls :
          VerifyUpdate(c) /\ calls[c].res = "ok" /\ calls[c].rec \in Ids =>
            \A id \in Ids : /\ otps[id].phone = calls[c].phone
                            /\ otps[id].purpose = calls[c].purpose
                            => id <= calls[c].rec]_vars

\* C23: a resend that throws TooSoon or RateLimitExceeded leaves the table
\* as it found it: every row that was unused before the call is unused
\* after it. (The clock stands still while a call is served, so a resend
\* whose UPDATE runs with the phone at its rate limit is one that throws
\* RateLimitExceeded.)
C23_FailedResendKeepsStore ==
    [][\A c \in Calls :
          /\ Began(c, "resend") /\ ret'.call = c =>
               ret'.res = "TooSoon" /\ otps' = otps
          /\ /\ calls[c].op = "resend" /\ calls[c].pc \in {"rInvalidate", "rIssue"}
             /\ calls'[c] # calls[c]
             /\ RateLimited(calls[c].phone)
             => /\ calls'[c].pc = "rIssue" \/ ret'.res = "RateLimitExceeded"
                /\ \A id \in Ids : ~otps[id].used => ~otps'[id].used]_vars

\* C24: the sweep running between the calls does not weaken the two time
\* windows. All rows are of one phone and the clock starts at 0, so a call
\* that returns row number n before minute 5 is the n-th issue of the phone
\* within five minutes, and any row inserted so far at minute 0 is less
\* than 60 seconds old: no issue or resend returns a fourth row before
\* minute 5, and a resend begun at minute 0 after an issue throws TooSoon.
C24_SweepKeepsWindows ==
    [][\A c \in Calls :
          /\ /\ ret'.call = c /\ ret'.op \in {"send", "resend"}
             /\ ret'.res = "ok" /\ now < RateWindow
             => ret'.rec <= RateMax
          /\ Began(c, "resend") /\ now < ResendWindow /\ nextId > 1
             => ret'.call = c /\ ret'.res = "TooSoon"]_vars

\* C25: right after a resend returned success, no other call having run in
\* between, the phone has exactly one unused row, the one the resend
\* inserted.
C25_ResendLeavesOneUnused ==
    ret.op = "resend" /\ ret.res = "ok" =>
       /\ ret.rec \in Ids
       /\ {id \in RowsOf(ret.phone) : ~otps[id].used} = {ret.rec}
       /\ otps[ret.rec].purpose = ret.purpose
       /\ otps[ret.rec].created = now

C25_Witness ==
    /\ ret.op = "resend" /\ ret.res = "ok" /\ ret.rec \in Ids
    /\ ~otps[ret.rec].used
    /\ \E id \in RowsOf(ret.phone) :
          otps[id].purpose # ret.purpose /\ otps[id].resent /\ otps[id].used
    /\ \E id \in Ids : otps[id].phone # ret.phone /\ ~otps[id].used

\* C26: no answer of verify-otp, login or refresh carries tokens for a user
\* whose account is deactivated, whatever the purpose of the OTP.
C26_NoTokensForDeactivated ==
    [][\A c \in Calls :
          /\ \/ VerifyOtpRespond(c)
             \/ LoginRespond(c)
             \/ \E id \in {1, 2} : Refresh(id)
          /\ resp'.user # 0
          => \E phone \in DOMAIN users' :
                users'[phone].id = resp'.user /\ users'[phone].active]_vars

\* C27: a row of purpose 'login' is inserted only for the phone of a
\* registered, active user: send-otp and resend-otp both answer 404 for an
\* unregistered phone and 401 for a deactivated one, and start no issue.
C27_LoginCodeOnlyForActiveUser ==
    [][\A c \in Calls :
          /\ \A phone \in {PhoneA, PhoneB} :
               /\ SendOtpLookup(c, phone, "login") \/ ResendOtp(c, phone, "login")
               /\ phone \notin DOMAIN users \/ ~users[phone].active
               => /\ resp'.status = IF phone \in DOMAIN users THEN 401 ELSE 404
                  /\ calls'[c] = calls[c] /\ otps' = otps
          /\ SendInsert(c) /\ calls[c].purpose = "login" =>
               /\ calls[c].phone \in DOMAIN users
               /\ users[calls[c].phone].active]_vars

\* C28: a request the limiter answers 429 leaves the count and the resetTime
\* of its key as they were, and is answered so only within windowMs of that
\* resetTime; the first request of a key that comes more than windowMs after
\* its resetTime is passed on, whatever the count had reached, and sets the
\* count to 1 and the resetTime to the present.
C28_RejectionKeepsWindow ==
    [][\A route \in LimitedRoutes, phone \in {PhoneA, NoPhone} :
          LimiterRequest(route, Ip1, phone) =>
            LET key == KeyOf(Ip1, phone)
            IN  /\ reply'.status = "429" =>
                     /\ key \in DOMAIN requests
                     /\ requests' = requests
                     /\ requests[key].count >= OtpLimitMax
                     /\ now - requests[key].resetTime <= OtpLimitWindow
                /\ /\ key \in DOMAIN requests
                   /\ now - requests[key].resetTime > OtpLimitWindow
                   => /\ reply'.status = "next"
                      /\ requests'[key].count = 1
                      /\ requests'[key].resetTime = now]_vars

C28_Witness ==
    /\ reply.status = "429" /\ reply.route = "send-otp"
    /\ reply.key = KeyOf(Ip1, PhoneA)
    /\ requests[reply.key].count = OtpLimitMax
    /\ requests[reply.key].resetTime = 6
    /\ now = 11

\* table without the entries whose window has passed.
Live(table) ==
    [key \in {k \in DOMAIN table : now - table[k].resetTime <= OtpLimitWindow} |->
        table[key]]

\* What the middleware makes of a request of key when its map is table: the
\* status of its answer and the entry it leaves for the key.
Served(table, key) ==
    IF key \notin DOMAIN table
    THEN [status |-> "next", entry |-> [count |-> 1, resetTime |-> now, passed |-> 1]]
    ELSE IF now - table[key].resetTime > OtpLimitWindow
    THEN [status |-> "next", entry |-> [count |-> 1, resetTime |-> now, passed |-> 1]]
    ELSE IF table[key].count >= OtpLimitMax
    THEN [status |-> "429", entry |-> table[key]]
    ELSE [status |-> "next",
          entry |-> [table[key] EXCEPT !.count = @ + 1, !.passed = @ + 1]]

\* C29: the purge cannot be told from the answers. Whatever was purged so
\* far, a request is answered, and leaves its key's entry, exactly as the
\* middleware would on the map with every entry whose window has passed
\* removed and as it would on the map as it is; the purge removes only such
\* entries, touches no other and answers nothing; and an entry whose window
\* has passed stays so as the clock moves on.
C29_PurgeUnobservable ==
    [][/\ \A route \in LimitedRoutes, phone \in {PhoneA, NoPhone} :
            LimiterRequest(route, Ip1, phone) =>
              LET key == KeyOf(Ip1, phone)
              IN  /\ reply'.status = Served(requests, key).status
                  /\ requests'[key] = Served(requests, key).entry
                  /\ Served(Live(requests), key) = Served(requests, key)
                  /\ \A k \in DOMAIN requests \ {key} :
                        k \in DOMAIN requests' /\ requests'[k] = requests[k]
       /\ LimiterCleanup =>
            /\ requests' = Live(requests)
            /\ reply' = NoReply
       /\ \A key \in DOMAIN requests :
            key \notin DOMAIN Live(requests) /\ key \in DOMAIN requests'
            /\ requests'[key] = requests[key]
            => now' - requests'[key].resetTime > OtpLimitWindow]_vars

C29_Witness ==
    /\ reply.status = "next" /\ reply.key = KeyOf(Ip1, PhoneA)
    /\ requests[reply.key] = [count |-> 1, resetTime |-> 11, passed |-> 1]
    /\ now = 11
    /\ KeyOf(Ip1, NoPhone) \in DOMAIN requests
    /\ requests[KeyOf(Ip1, NoPhone)].count = OtpLimitMax
    /\ requests[KeyOf(Ip1, NoPhone)].resetTime = 6
====
